---- MODULE Spec2Model ----
(***************************************************************************)
(* Model of cai/client/message_service/decoders.py: the two-level C2C      *)
(* command dispatch (MESSAGE_DECODERS, BuddyMessageDecoder.decode), the    *)
(* structural validation of decode_normal_buddy and the cursor scan of     *)
(* parse_elements.                                                         *)
(*                                                                         *)
(* Protobuf messages are records.  A message-typed or optional field is    *)
(* present iff its name is in the record's presence set (HasField); an     *)
(* absent field reads as its default value, as the protobuf runtime does.  *)
(* Byte strings are sequences of 0..255, text is a sequence of code points *)
(***************************************************************************)
EXTENDS Integers, Sequences, FiniteSets, TLC

\* ------------------------------------------------------------------ bounds
MaxLen == 3        \* longest content-element sequence handed to the decoder
ProbeLen == 2      \* longest content-element sequence of a re-decoded record

\* --------------------------------------------------------------- constants
\* A uint32 of the poke payload is written as its two 16-bit halves <<high,
\* low>>: 0xFFFFFFFF is beyond the integers TLC evaluates.
U32(high, low) == <<high, low>>
VASPOKE_UNUSED == U32(65535, 65535)      \* 0xFFFFFFFF
SERVTYPE_POKE == 2
SERVTYPE_FACE == 33

\* ---------------------------------------------------- bytes.decode("utf-8")
UnicodeDecodeError == <<-1>>

IsCont(b) == b >= 128 /\ b <= 191

Prepend(cp, rest) ==
    IF rest = UnicodeDecodeError THEN UnicodeDecodeError ELSE <<cp>> \o rest

RECURSIVE Utf8Decode(_)
Utf8Decode(bs) ==
    IF bs = <<>> THEN <<>>
    ELSE LET n == Len(bs)
             b1 == bs[1]
         IN  IF b1 < 128
             THEN Prepend(b1, Utf8Decode(SubSeq(bs, 2, n)))
             ELSE IF b1 >= 194 /\ b1 <= 223 /\ n >= 2 /\ IsCont(bs[2])
             THEN Prepend((b1 - 192) * 64 + (bs[2] - 128),
                          Utf8Decode(SubSeq(bs, 3, n)))
             ELSE IF /\ b1 >= 224 /\ b1 <= 239 /\ n >= 3
                     /\ IsCont(bs[2]) /\ IsCont(bs[3])
                     /\ (b1 = 224 => bs[2] >= 160)
                     /\ (b1 = 237 => bs[2] <= 159)
             THEN Prepend((b1 - 224) * 4096 + (bs[2] - 128) * 64 + (bs[3] - 128),
                          Utf8Decode(SubSeq(bs, 4, n)))
             ELSE IF /\ b1 >= 240 /\ b1 <= 244 /\ n >= 4
                     /\ IsCont(bs[2]) /\ IsCont(bs[3]) /\ IsCont(bs[4])
                     /\ (b1 = 240 => bs[2] >= 144)
                     /\ (b1 = 244 => bs[2] <= 143)
             THEN Prepend((b1 - 240) * 262144 + (bs[2] - 128) * 4096
                            + (bs[3] - 128) * 64 + (bs[4] - 128),
                          Utf8Decode(SubSeq(bs, 5, n)))
             ELSE UnicodeDecodeError

\* ------------------------------------------------- embedded sub-payloads
\* A serialized sub-payload is the sequence of its <<field, value>> entries
\* in wire order; parsing keeps the last entry of a field and gives every
\* field that has no entry its default.
PbField(pb, name, default) ==
    LET hits == {i \in 1..Len(pb) : pb[i][1] = name}
    IN  IF hits = {} THEN default
        ELSE pb[CHOOSE i \in hits : \A j \in hits : j <= i][2]

Servtype2FromString(pb) ==
    [poke_type     |-> PbField(pb, "poke_type", U32(0, 0)),
     vaspoke_id    |-> PbField(pb, "vaspoke_id", U32(0, 0)),
     vaspoke_name  |-> PbField(pb, "vaspoke_name", <<>>),
     poke_strength |-> PbField(pb, "poke_strength", U32(0, 0)),
     double_hit    |-> PbField(pb, "double_hit", U32(0, 0))]

Servtype33FromString(pb) ==
    [index |-> PbField(pb, "index", 0)]


\* ------------------------------------------------ Elem (content records)
Elem0 ==
    [fields |-> {}, text_str |-> <<>>, face_index |-> 0, pack_id_sum |-> 0,
     service_type |-> 0, pb_elem |-> <<>>]

HasField(elem, name) == name \in elem.fields

TextElem(bs)       == [Elem0 EXCEPT !.fields = {"text"}, !.text_str = bs]
FaceElem(i)        == [Elem0 EXCEPT !.fields = {"face"}, !.face_index = i]
SmallEmojiElem(p)  == [Elem0 EXCEPT !.fields = {"small_emoji"}, !.pack_id_sum = p]
CommonElem(st, pb) == [Elem0 EXCEPT !.fields = {"common_elem"},
                                    !.service_type = st, !.pb_elem = pb]
PlaceholderElem(f) == [Elem0 EXCEPT !.fields = {f}]

\* "Poke" in UTF-8
PokeName == <<80, 111, 107, 101>>

PokePayloads ==
    { << <<"poke_type", U32(0, 5)>>, <<"double_hit", U32(0, 0)>>,
         <<"vaspoke_id", VASPOKE_UNUSED>>, <<"vaspoke_name", PokeName>>,
         <<"poke_strength", U32(0, 1)>> >>,
      << <<"poke_type", U32(0, 5)>>, <<"double_hit", U32(0, 1)>>,
         <<"vaspoke_id", U32(0, 99)>>, <<"vaspoke_name", PokeName>>,
         <<"poke_strength", U32(0, 3)>> >>,
      << <<"poke_type", U32(0, 1)>>, <<"poke_type", U32(0, 6)>> >> }

\* The records a content-element sequence is drawn from: one tag per record
\* (or none), text payloads well-formed UTF-8.
ElemAlphabet ==
    { TextElem(<<97>>), TextElem(<<195, 169>>), FaceElem(7), SmallEmojiElem(42),
      CommonElem(SERVTYPE_FACE, << <<"index", 5>> >>), CommonElem(7, <<>>),
      PlaceholderElem("custom_face"), PlaceholderElem("not_online_image"),
      PlaceholderElem("src_msg"), Elem0 }
      \cup { CommonElem(SERVTYPE_POKE, pb) : pb \in PokePayloads }

ElemSeqs(alphabet, n) == UNION { [1..k -> alphabet] : k \in 0..n }

\* ------------------------------------------------------ Element (models)
TextElement(text)            == [type |-> "TextElement", text |-> text]
FaceElement(id)              == [type |-> "FaceElement", id |-> id]
SmallEmojiElement(id, text)  == [type |-> "SmallEmojiElement", id |-> id, text |-> text]
PokeElement(id, name, strength, double_hit) ==
    [type |-> "PokeElement", id |-> id, name |-> name,
     strength |-> strength, double_hit |-> double_hit]

\* ------------------------------------------- parse_elements, one iteration
\* The state threaded through the body of the while loop: the list built so
\* far, the cursor, and how the body ends ("next": falls through to the
\* cursor increment, "break": leaves the loop, anything else: the exception
\* that leaves parse_elements).
Body(r, i, e) == [res |-> r, index |-> i, exit |-> e]

IfText(elem, st) ==
    IF st.exit = "next" /\ HasField(elem, "text")
    THEN LET text == Utf8Decode(elem.text_str)
         IN  IF text = UnicodeDecodeError
             THEN Body(st.res, st.index, "UnicodeDecodeError")
             ELSE Body(Append(st.res, TextElement(text)), st.index, "next")
    ELSE st

IfFace(elem, st) ==
    IF st.exit = "next" /\ HasField(elem, "face")
    THEN Body(Append(st.res, FaceElement(elem.face_index)), st.index, "next")
    ELSE st

\* IfSmallEmoji reading the caption without moving the cursor
IfSmallEmoji_Peek(elems, elem, st) ==
    IF st.exit = "next" /\ HasField(elem, "small_emoji")
    THEN IF st.index + 1 >= Len(elems)
         THEN Body(st.res, st.index + 1, "IndexError")
         ELSE Body(Append(st.res,
                          SmallEmojiElement(elem.pack_id_sum,
                                            Utf8Decode(elems[st.index + 2].text_str))),
                   st.index, "next")
    ELSE st

\* IfSmallEmoji skipping a small_emoji that has no following record
IfSmallEmoji_Skip(elems, elem, st) ==
    IF st.exit = "next" /\ HasField(elem, "small_emoji")
    THEN IF st.index + 1 >= Len(elems)
         THEN st
         ELSE Body(Append(st.res,
                          SmallEmojiElement(elem.pack_id_sum,
                                            Utf8Decode(elems[st.index + 2].text_str))),
                   st.index + 1, "next")
    ELSE st

IfSmallEmoji(elems, elem, st) ==
    IF st.exit = "next" /\ HasField(elem, "small_emoji")
    THEN LET index == st.index + 1
         IN  IF index >= Len(elems)
             THEN Body(st.res, index, "IndexError")
             ELSE LET text == Utf8Decode(elems[index + 1].text_str)
                  IN  IF text = UnicodeDecodeError
                      THEN Body(st.res, index, "UnicodeDecodeError")
                      ELSE Body(Append(st.res,
                                       SmallEmojiElement(elem.pack_id_sum, text)),
                                index, "next")
    ELSE st

\* PokeId falling back to poke_type for every falsy or unused vaspoke_id
PokeId_Truthy(poke) ==
    IF poke.vaspoke_id \in {VASPOKE_UNUSED, U32(0, 0)}
    THEN poke.poke_type ELSE poke.vaspoke_id

PokeId(poke) ==
    IF poke.vaspoke_id = VASPOKE_UNUSED THEN poke.poke_type ELSE poke.vaspoke_id

\* IfCommonElem appending the poke to the list instead of replacing the list
IfCommonElem_AppendPoke(elem, st) ==
    IF st.exit = "next" /\ HasField(elem, "common_elem")
    THEN IF elem.service_type = SERVTYPE_POKE
         THEN LET poke == Servtype2FromString(elem.pb_elem)
              IN  Body(Append(st.res,
                              PokeElement(PokeId(poke), Utf8Decode(poke.vaspoke_name),
                                          poke.poke_strength, poke.double_hit)),
                       st.index, "break")
         ELSE IF elem.service_type = SERVTYPE_FACE
         THEN Body(Append(st.res,
                          FaceElement(Servtype33FromString(elem.pb_elem).index)),
                   st.index, "next")
         ELSE st
    ELSE st

\* IfCommonElem leaving the loop at a service_type it does not know
IfCommonElem_StopOnUnknown(elem, st) ==
    IF st.exit = "next" /\ HasField(elem, "common_elem")
    THEN IF elem.service_type = SERVTYPE_POKE
         THEN LET poke == Servtype2FromString(elem.pb_elem)
              IN  Body(<<PokeElement(PokeId(poke), Utf8Decode(poke.vaspoke_name),
                                     poke.poke_strength, poke.double_hit)>>,
                       st.index, "break")
         ELSE IF elem.service_type = SERVTYPE_FACE
         THEN Body(Append(st.res,
                          FaceElement(Servtype33FromString(elem.pb_elem).index)),
                   st.index, "next")
         ELSE Body(st.res, st.index, "break")
    ELSE st

IfCommonElem(elem, st) ==
    IF st.exit = "next" /\ HasField(elem, "common_elem")
    THEN LET service_type == elem.service_type
         IN  IF service_type = SERVTYPE_POKE
             THEN LET poke == Servtype2FromString(elem.pb_elem)
                      name == Utf8Decode(poke.vaspoke_name)
                  IN  IF name = UnicodeDecodeError
                      THEN Body(st.res, st.index, "UnicodeDecodeError")
                      ELSE Body(<<PokeElement(PokeId(poke), name,
                                              poke.poke_strength, poke.double_hit)>>,
                                st.index, "break")
             ELSE IF service_type = SERVTYPE_FACE
             THEN LET info == Servtype33FromString(elem.pb_elem)
                  IN  Body(Append(st.res, FaceElement(info.index)), st.index, "next")
             ELSE st
    ELSE st

\* Advance without the cursor increment
Advance_Stuck(st) == st

Advance(st) ==
    IF st.exit = "next" THEN Body(st.res, st.index + 1, "next") ELSE st

LoopBody(elems, index, res) ==
    LET elem == elems[index + 1]
    IN  Advance(IfCommonElem(elem,
                  IfSmallEmoji(elems, elem,
                    IfFace(elem,
                      IfText(elem, Body(res, index, "next"))))))

\* ------------------------------------------------------------ Msg records
\* head.msg_type is the key looked up in MESSAGE_DECODERS, head.c2c_cmd the
\* key looked up in sub_decoders.  An absent body, rich_text or content_head
\* reads as its default (no elems, auto_reply 0).
BuddyHead ==
    [msg_type |-> 166, c2c_cmd |-> 11, seq |-> 1, time |-> 100,
     from_uin |-> 10001, from_nick |-> "alice", to_uin |-> 10002]

ReplyHead ==
    [msg_type |-> 9, c2c_cmd |-> 175, seq |-> 2, time |-> 200,
     from_uin |-> 10002, from_nick |-> "", to_uin |-> 10001]

FileHead ==
    [msg_type |-> 166, c2c_cmd |-> 129, seq |-> 3, time |-> 300,
     from_uin |-> 10001, from_nick |-> "alice", to_uin |-> 10002]

TroopHead ==
    [msg_type |-> 33, c2c_cmd |-> 11, seq |-> 4, time |-> 400,
     from_uin |-> 10003, from_nick |-> "bob", to_uin |-> 10002]

NoContentHead == [has_content_head |-> FALSE, auto_reply |-> 0]
ContentHead(auto_reply) == [has_content_head |-> TRUE, auto_reply |-> auto_reply]

\* head and content_head of the records handed over
Envelopes ==
    { <<BuddyHead, NoContentHead>>, <<BuddyHead, ContentHead(1)>>,
      <<ReplyHead, ContentHead(0)>>, <<ReplyHead, ContentHead(2)>>,
      <<FileHead, NoContentHead>>, <<FileHead, ContentHead(1)>>,
      <<TroopHead, ContentHead(0)>> }

Bodies(alphabet, n) ==
    { [has_body |-> FALSE, has_rich_text |-> FALSE, elems |-> <<>>],
      [has_body |-> TRUE, has_rich_text |-> FALSE, elems |-> <<>>] }
      \cup { [has_body |-> TRUE, has_rich_text |-> TRUE, elems |-> es] :
             es \in ElemSeqs(alphabet, n) }

Msg(head, body, content_head) ==
    [head |-> head,
     has_body |-> body.has_body, has_rich_text |-> body.has_rich_text,
     elems |-> body.elems,
     has_content_head |-> content_head.has_content_head,
     auto_reply |-> content_head.auto_reply]

Messages ==
    { Msg(e[1], b, e[2]) : e \in Envelopes, b \in Bodies(ElemAlphabet, MaxLen) }

\* Records that are held by the caller and may be handed over a second time.
ProbeAlphabet ==
    { TextElem(<<97>>), SmallEmojiElem(42),
      CommonElem(SERVTYPE_POKE, << <<"vaspoke_id", U32(0, 99)>> >>) }

ProbeMessages ==
    { Msg(e[1], b, e[2]) :
        e \in { <<BuddyHead, NoContentHead>>, <<BuddyHead, ContentHead(1)>>,
                <<FileHead, ContentHead(1)>> },
        b \in Bodies(ProbeAlphabet, ProbeLen) }

\* ------------------------------------------------------ dispatch mappings
MESSAGE_DECODERS ==
    [k \in {9, 10, 31, 79, 97, 120, 132, 133, 166, 167} |->
        "BuddyMessageDecoder.decode"]

\* sub_decoders with the OnlineFileDecoder entry 129 routed as well
sub_decoders_With129 ==
    [k \in {11, 129, 175} |-> "decode_normal_buddy"]

sub_decoders ==
    [k \in {11, 175} |-> "decode_normal_buddy"]

\* ---------------------------------------------------------- return values
None == [kind |-> "None"]
Raised(exc) == [kind |-> exc]
PrivateMessage(seq, time, auto_reply, from_uin, from_nick, to_uin, message) ==
    [kind |-> "PrivateMessage", seq |-> seq, time |-> time,
     auto_reply |-> auto_reply, from_uin |-> from_uin, from_nick |-> from_nick,
     to_uin |-> to_uin, message |-> message]

NoMsg == [kind |-> "NoMsg"]
NoFrame == [kind |-> "NoFrame"]
NotYet == [kind |-> "NotYet"]

\* ------------------------------------------------------------------ state
VARIABLES
    pc,           \* "idle", "parse" (inside parse_elements), "done" (returned)
    message,      \* the Msg of the decode call in progress
    frame,        \* locals of decode_normal_buddy read before parse_elements
    elems,        \* parse_elements: its argument
    index,        \* parse_elements: the cursor
    res,          \* parse_elements: the list built so far
    broke,        \* parse_elements: the loop was left by break
    result,       \* what the decode call returned or raised
    traces,       \* logger.debug records emitted by the call
    calls,        \* functions entered by the call, in order
    visited,      \* cursor value at the start of every loop iteration
    probe,        \* a record the caller keeps and may hand over again
    probeResult   \* the result of the first decode of probe

vars == <<pc, message, frame, elems, index, res, broke, result, traces,
          calls, visited, probe, probeResult>>

Pool == IF probe = NoMsg THEN Messages ELSE ProbeMessages

Idle ==
    /\ pc = "idle" /\ message = NoMsg /\ frame = NoFrame
    /\ elems = <<>> /\ index = 0 /\ res = <<>> /\ broke = FALSE
    /\ result = None /\ traces = <<>> /\ calls = <<>> /\ visited = <<>>

Init == Idle /\ probe = NoMsg /\ probeResult = NotYet

InitProbe == Idle /\ probe \in ProbeMessages /\ probeResult = NotYet

\* Incomplete without the content_head test
Incomplete_NoContentHead(m) ==
    \/ ~ m.has_body
    \/ ~ m.has_rich_text
    \/ m.elems = <<>>

\* decode_normal_buddy: the structural check in front of the field reads
Incomplete(m) ==
    \/ ~ m.has_body
    \/ ~ m.has_rich_text
    \/ m.elems = <<>>
    \/ ~ m.has_content_head

Bool(n) == n # 0

\* Locals with from_uin and to_uin exchanged
Locals_Swapped(m) ==
    [seq |-> m.head.seq, time |-> m.head.time,
     auto_reply |-> Bool(m.auto_reply),
     from_uin |-> m.head.to_uin, from_nick |-> m.head.from_nick,
     to_uin |-> m.head.from_uin, elems |-> m.elems]

Locals(m) ==
    [seq |-> m.head.seq, time |-> m.head.time,
     auto_reply |-> Bool(m.auto_reply),
     from_uin |-> m.head.from_uin, from_nick |-> m.head.from_nick,
     to_uin |-> m.head.to_uin, elems |-> m.elems]

\* MESSAGE_DECODERS[msg_type](m): BuddyMessageDecoder.decode and, through
\* sub_decoders, decode_normal_buddy up to its call of parse_elements.
Decode(m) ==
    /\ pc = "idle"
    /\ m.head.msg_type \in DOMAIN MESSAGE_DECODERS
    /\ MESSAGE_DECODERS[m.head.msg_type] = "BuddyMessageDecoder.decode"
    /\ message' = m
    /\ IF m.head.c2c_cmd \notin DOMAIN sub_decoders
       THEN /\ traces' = Append(traces, [level |-> "debug",
                                         c2c_cmd |-> m.head.c2c_cmd])
            /\ calls' = <<"BuddyMessageDecoder.decode">>
            /\ result' = None
            /\ pc' = "done"
            /\ UNCHANGED <<frame, elems, index, res>>
       ELSE IF Incomplete(m)
       THEN /\ calls' = <<"BuddyMessageDecoder.decode",
                          sub_decoders[m.head.c2c_cmd]>>
            /\ result' = None
            /\ pc' = "done"
            /\ UNCHANGED <<traces, frame, elems, index, res>>
       ELSE /\ calls' = <<"BuddyMessageDecoder.decode",
                          sub_decoders[m.head.c2c_cmd], "parse_elements">>
            /\ frame' = Locals(m)
            /\ elems' = Locals(m).elems
            /\ index' = 0
            /\ res' = <<>>
            /\ pc' = "parse"
            /\ UNCHANGED <<traces, result>>
    /\ UNCHANGED <<broke, visited, probe, probeResult>>

\* Iterate deleting the record it has handled from the caller's sequence
Iterate_Pop ==
    /\ pc = "parse" /\ ~ broke /\ index < Len(elems)
    /\ LET st == LoopBody(elems, index, res)
       IN  /\ visited' = Append(visited, index)
           /\ res' = st.res
           /\ index' = st.index
           /\ broke' = (st.exit = "break")
           /\ IF st.exit \in {"next", "break"}
              THEN UNCHANGED <<pc, result>>
              ELSE pc' = "done" /\ result' = Raised(st.exit)
    /\ message' = [message EXCEPT !.elems = SubSeq(@, 1, Len(@) - 1)]
    /\ probe' = IF message = probe THEN message' ELSE probe
    /\ UNCHANGED <<frame, elems, traces, calls, probeResult>>

\* parse_elements: one pass through the body of the while loop
Iterate ==
    /\ pc = "parse" /\ ~ broke /\ index < Len(elems)
    /\ LET st == LoopBody(elems, index, res)
       IN  /\ visited' = Append(visited, index)
           /\ res' = st.res
           /\ index' = st.index
           /\ broke' = (st.exit = "break")
           /\ IF st.exit \in {"next", "break"}
              THEN UNCHANGED <<pc, result>>
              ELSE pc' = "done" /\ result' = Raised(st.exit)
    /\ UNCHANGED <<message, frame, elems, traces, calls, probe, probeResult>>

\* parse_elements returns res; decode_normal_buddy builds the PrivateMessage
Return ==
    /\ pc = "parse" /\ (broke \/ index >= Len(elems))
    /\ result' = PrivateMessage(frame.seq, frame.time, frame.auto_reply,
                                frame.from_uin, frame.from_nick, frame.to_uin,
                                res)
    /\ pc' = "done"
    /\ UNCHANGED <<message, frame, elems, index, res, broke, traces, calls,
                   visited, probe, probeResult>>

\* The caller takes the outcome; everything the call built is dropped.
Consume ==
    /\ pc = "done"
    /\ probeResult' = IF message = probe /\ probeResult = NotYet
                      THEN result ELSE probeResult
    /\ pc' = "idle" /\ message' = NoMsg /\ frame' = NoFrame
    /\ elems' = <<>> /\ index' = 0 /\ res' = <<>> /\ broke' = FALSE
    /\ result' = None /\ traces' = <<>> /\ calls' = <<>> /\ visited' = <<>>
    /\ UNCHANGED probe

Next ==
    \/ pc = "idle" /\ \E m \in Pool : Decode(m)
    \/ Iterate
    \/ Return
    \/ Consume

Spec == Init /\ [][Next]_vars

SpecProbe == InitProbe /\ [][Next]_vars

\* ------------------------------------------------------------- properties
Range(f) == { f[i] : i \in DOMAIN f }
At(v) == elems[v + 1]                 \* the record at cursor value v
LastVisited == visited[Len(visited)]
IsPoke(e) == HasField(e, "common_elem") /\ e.service_type = 2
Routed(m) == m.head.c2c_cmd \in {11, 175}

\* C1: a record routed to decode_normal_buddy whose content head is absent,
\* or whose content-element sequence is absent or empty, ends the call at
\* once with no event: parse_elements is not entered, nothing is raised and
\* nothing is traced.
C1_StructuralAbsenceYieldsNoEvent ==
    ( /\ pc # "idle"
      /\ Routed(message)
      /\ \/ ~ message.has_content_head
         \/ ~ message.has_body
         \/ ~ message.has_rich_text
         \/ message.elems = <<>> )
    => /\ pc = "done"
       /\ result = None
       /\ calls = <<"BuddyMessageDecoder.decode", "decode_normal_buddy">>
       /\ visited = <<>> /\ res = <<>>
       /\ traces = <<>>

C1_Witness ==
    /\ pc = "done" /\ Routed(message) /\ result = None
    /\ ~ message.has_content_head
    /\ message.has_body /\ message.has_rich_text /\ Len(message.elems) >= 2

\* C2: a record whose top command is mapped and whose c2c_cmd is neither 11
\* nor 175 ends the call with no event, exactly one debug trace (naming the
\* c2c_cmd) and no exception, whatever else the record holds.
C2_UnmappedSubCommandTracesOnce ==
    ( /\ pc # "idle"
      /\ message.head.msg_type \in {9, 10, 31, 79, 97, 120, 132, 133, 166, 167}
      /\ message.head.c2c_cmd \notin {11, 175} )
    => /\ pc = "done"
       /\ result = None
       /\ Len(traces) = 1
       /\ traces[1] = [level |-> "debug", c2c_cmd |-> message.head.c2c_cmd]
       /\ calls = <<"BuddyMessageDecoder.decode">>
       /\ visited = <<>>

C2_Witness ==
    /\ pc = "done" /\ message.head.c2c_cmd = 129 /\ Len(traces) = 1
    /\ message.has_content_head /\ Len(message.elems) >= 2
    /\ result = None

\* C3: when the record at the cursor carries small_emoji and the next record
\* carries text, the iteration appends exactly one SmallEmojiElement (pack id
\* of the current record, caption the decoded text of the next one) and moves
\* the cursor by two; the caption record is never a cursor position itself.
C3_Step ==
    ( /\ pc = "parse" /\ ~ broke /\ index + 1 < Len(elems)
      /\ HasField(At(index), "small_emoji")
      /\ HasField(At(index + 1), "text") )
    => /\ res' = Append(res, SmallEmojiElement(At(index).pack_id_sum,
                                               Utf8Decode(At(index + 1).text_str)))
       /\ index' = index + 2
       /\ visited' = Append(visited, index)
       /\ pc' = "parse" /\ ~ broke'

C3_CaptionNeverVisited ==
    \A k \in 1..Len(visited) :
        ( /\ HasField(At(visited[k]), "small_emoji")
          /\ visited[k] + 1 < Len(elems)
          /\ HasField(At(visited[k] + 1), "text") )
        => /\ visited[k] + 1 \notin Range(visited)
           /\ index >= visited[k] + 2

C3_SmallEmojiConsumesCaption ==
    [] C3_CaptionNeverVisited /\ [][C3_Step]_vars

C3_Witness ==
    /\ pc = "done" /\ result.kind = "PrivateMessage"
    /\ elems = <<SmallEmojiElem(42), TextElem(<<195, 169>>), FaceElem(7)>>
    /\ visited = <<0, 2>>
    /\ res = <<SmallEmojiElement(42, <<233>>), FaceElement(7)>>

\* C4: once the cursor reaches a common_elem record of service_type 2, the
\* list is exactly one PokeElement, that iteration is the last one, and the
\* call returns that one-element list.
C4_PokeOverridesAndStops ==
    \A k \in 1..Len(visited) :
        IsPoke(At(visited[k]))
        => /\ k = Len(visited)
           /\ Len(res) = 1 /\ res[1].type = "PokeElement"
           /\ pc \in {"parse", "done"}
           /\ (pc = "parse" => broke /\ index = visited[k])
           /\ (pc = "done" => /\ result.kind = "PrivateMessage"
                              /\ result.message = res)

C4_Witness ==
    /\ pc = "done" /\ Len(elems) = 3 /\ visited = <<0, 1>>
    /\ HasField(At(0), "text") /\ IsPoke(At(1)) /\ HasField(At(2), "face")
    /\ Len(result.message) = 1 /\ result.message[1].type = "PokeElement"

\* C5: the PokeElement's id is poke_type when vaspoke_id is 0xFFFFFFFF and
\* vaspoke_id otherwise (0 included); name, strength and double-hit are the
\* payload's.
C5_PokeIdentifier ==
    broke =>
        LET poke == Servtype2FromString(At(LastVisited).pb_elem)
        IN  /\ poke.vaspoke_id = U32(65535, 65535) => res[1].id = poke.poke_type
            /\ poke.vaspoke_id # U32(65535, 65535) => res[1].id = poke.vaspoke_id
            /\ res[1].name = Utf8Decode(poke.vaspoke_name)
            /\ res[1].strength = poke.poke_strength
            /\ res[1].double_hit = poke.double_hit

C5_Witness ==
    /\ pc = "done" /\ broke
    /\ Servtype2FromString(At(LastVisited).pb_elem).vaspoke_id = U32(65535, 65535)
    /\ result.message = <<PokeElement(U32(0, 5), <<80, 111, 107, 101>>,
                                      U32(0, 1), U32(0, 0))>>

\* C6 as stated: a small_emoji record the cursor reaches that is the last
\* record, or whose next record carries no text, aborts the parse with an
\* out-of-bounds access.
LacksCaption(v) ==
    /\ HasField(At(v), "small_emoji")
    /\ v + 1 < Len(elems)
    /\ ~ HasField(At(v + 1), "text")

IsTrailing(v) == HasField(At(v), "small_emoji") /\ v + 1 >= Len(elems)

C6_TrailingAborts ==
    /\ \A k \in 1..Len(visited) :
           IsTrailing(visited[k])
           => /\ k = Len(visited)
              /\ pc = "done" /\ result = Raised("IndexError")
    /\ (pc = "done" /\ result.kind \notin {"None", "PrivateMessage"})
       => /\ result = Raised("IndexError")
          /\ visited # <<>> /\ IsTrailing(LastVisited)

C6_UncaptionedStep ==
    (pc = "parse" /\ ~ broke /\ index < Len(elems) /\ LacksCaption(index))
    => /\ res' = Append(res, SmallEmojiElement(At(index).pack_id_sum, <<>>))
       /\ index' = index + 2
       /\ pc' = "parse"

PlainElement(e) ==
    IF e.fields = {"text"} THEN <<TextElement(Utf8Decode(e.text_str))>>
    ELSE IF e.fields = {"face"} THEN <<FaceElement(e.face_index)>>
    ELSE IF e.fields = {"common_elem"} /\ e.service_type = 33
    THEN <<FaceElement(PbField(e.pb_elem, "index", 0))>>
    ELSE <<>>

RECURSIVE PlainElements(_)
PlainElements(es) ==
    IF es = <<>> THEN <<>>
    ELSE PlainElement(Head(es)) \o PlainElements(Tail(es))

IsPlain(es) ==
    \A i \in 1..Len(es) : ~ IsPoke(es[i]) /\ ~ HasField(es[i], "small_emoji")

C8_PlainSequencesMapInOrder ==
    (pc = "done" /\ "parse_elements" \in Range(calls) /\ IsPlain(message.elems))
    => /\ result.kind = "PrivateMessage"
       /\ result.message = PlainElements(message.elems)
       /\ visited = [k \in 1..Len(message.elems) |-> k - 1]

C8_Witness ==
    /\ pc = "done"
    /\ message.elems = <<TextElem(<<97>>), CommonElem(7, <<>>), FaceElem(7)>>
    /\ result.kind = "PrivateMessage"
    /\ result.message = <<TextElement(<<97>>), FaceElement(7)>>

\* C9: a record decoded again, whatever was decoded in between, gives a
\* result equal to that of its first decode; no step of a call changes the
\* record it was given or the sequence it scans.
C9_SameResult ==
    (pc = "done" /\ message = probe /\ probeResult # NotYet)
    => result = probeResult

C9_NoMutation ==
    /\ probe' = probe
    /\ pc # "idle" => (pc' # "idle" => message' = message)
    /\ pc = "parse" => elems' = elems /\ elems = message.elems

C9_DecodeIsRepeatable ==
    [] C9_SameResult /\ [][C9_NoMutation]_vars

C9_Witness ==
    /\ pc = "done" /\ message = probe
    /\ probeResult.kind = "PrivateMessage" /\ result = probeResult
    /\ Len(message.elems) = 2

\* C10: the scan ends after at most as many iterations as there are records:
\* the cursor is 0 at the first iteration and 1 or 2 larger at every
\* following one, no position is visited twice, the cursor never passes the
\* length of the sequence, and the list never has more elements than there
\* are records.  An iteration either ends the scan (break or exception) or
\* leaves the cursor 1 or 2 further on.
C10_Bounds ==
    /\ Len(visited) <= Len(elems)
    /\ Len(res) <= Len(elems)
    /\ index >= 0 /\ index <= Len(elems)
    /\ \A k \in 1..Len(visited) : visited[k] >= 0 /\ visited[k] < Len(elems)
    /\ visited # <<>> => visited[1] = 0
    /\ \A k \in 1..(Len(visited) - 1) : visited[k + 1] - visited[k] \in {1, 2}
    /\ (pc = "parse" /\ visited = <<>>) => index = 0
    /\ (pc = "parse" /\ visited # <<>> /\ ~ broke)
       => index - LastVisited \in {1, 2}
    /\ (pc = "done" /\ result.kind = "PrivateMessage")
       => Len(result.message) <= Len(message.elems)

C10_Progress ==
    (pc = "parse" /\ visited' # visited)
    => /\ visited' = Append(visited, index)
       /\ \/ pc' = "done"
          \/ pc' = "parse" /\ broke'
          \/ pc' = "parse" /\ index' - index \in {1, 2}

====
